---- MODULE Spec2Model ----
(***************************************************************************)
(* Quote book, fill protocol and trade ledger of the trading game.         *)
(*                                                                         *)
(* The store holds three collections: marketPrices (quotes), trades (the   *)
(* shared ledger) and users/{uid}/trades (per-user trade history).  Each   *)
(* client keeps a local copy of the active quotes (React state             *)
(* marketPrices, refreshed by the onSnapshot subscription), the id of the  *)
(* quote its form edits (currentQuote) and at most one fill in flight.     *)
(*                                                                         *)
(* A client acts on its local copy, which is as old as its last snapshot:  *)
(* that is where a handler's read and its write come apart.  A handler's   *)
(* first storage call is therefore taken together with the click that      *)
(* issues it (any write that lands between the two is a write the local    *)
(* copy has not yet seen); executeTrade, which awaits two storage calls,   *)
(* is cut between them.  A Firestore transaction is serializable, so its   *)
(* body is one step.                                                       *)
(*                                                                         *)
(* Spec: one user posts and edits quotes (Makers), two others hit and lift *)
(* from the rows of the price table (Takers).                              *)
(* BookSpec: two users post and edit quotes, with form entries the checks  *)
(* refuse among them (Quoters), and a third hits and lifts (Dealers).      *)
(* CancelSpec: one user posts, edits, starts new quotes, pulls, cancels    *)
(* and reloads the page (Owners), and another hits and lifts.              *)
(***************************************************************************)
EXTENDS Integers, Sequences, FiniteSets, TLC

\* ------------------------------------------------------------------ bounds

MaxQuotes == 2          \* documents ever created in marketPrices
MaxFills == 2           \* fills started in a run (so trades in the ledger)
MaxAmount == 3          \* largest amount typed into a form
MaxSubmits == 2         \* submissions (creates and edits) accepted in a run

Users == {"X", "Y", "Z"}
Makers == {"X"}                  \* the users who post quotes
Takers == {"Y", "Z"}             \* the users who hit and lift
BidPrices == {1, 2}              \* bid prices typed into the quote form
OfferPrices == {3}               \* offer prices typed into the quote form
Amounts == 1 .. MaxAmount       \* amounts typed into a trade box
FormAmounts == {MaxAmount}      \* amounts typed into the quote form
QuoteIds == 1 .. MaxQuotes
Sides == {"hit", "lift"}

SYMBOL == "NVDA"

\* ------------------------------------------------------------------- state

VARIABLES
    quotes,         \* collection marketPrices: quote id -> document
    trades,         \* collection trades: the ledger, in commit order
    userTrades,     \* collections users/{uid}/trades, as a set of entries
    marketPrices,   \* per client: React state marketPrices (id -> document)
    userMarketPrices, \* per client: React state userMarketPrices (id -> status)
    currentQuote,   \* per client: React state currentQuote (0 = null)
    selectedPrice,  \* per client: React state selectedPrice (the box clicked)
    summary,        \* per client: the figures of Net Position and Profit
                    \* Summary as last rendered
    op,             \* per client: the handler in flight, or its outcome
    posted,         \* per quote: amounts at the owner's last write, and the
                    \* ledger length then (history variable)
    submits,        \* number of accepted submissions (history variable)
    fills           \* number of fills started (history variable)

vars == <<quotes, trades, userTrades, marketPrices, userMarketPrices, currentQuote,
          selectedPrice, summary, op, posted, submits, fills>>

\* A document of marketPrices.  status "none" stands for "no such document";
\* lastTradeId / executedTradeId 0 stand for "field not present".
MarketPrice(u, bp, ba, op_, oa, st, lt, et) ==
    [userId |-> u, bidPrice |-> bp, bidAmount |-> ba, offerPrice |-> op_,
     offerAmount |-> oa, status |-> st, lastTradeId |-> lt, executedTradeId |-> et]

NoDoc == MarketPrice("", 0, 0, 0, 0, "none", 0, 0)

\* executeTrade of the page between its two awaits (pc "txn") or after its
\* transaction threw (pc "StaleQuote", the error the page then shows, with the
\* selection it keeps): the quote it targets, the side, the amount, and the
\* document it was handed.  After a refused submission pc is the error
\* handleSubmit has set.
NoOp == [pc |-> "idle", id |-> 0, side |-> "", amount |-> 0, doc |-> NoDoc]

\* selectedPrice with nothing selected: {type: null, price: null}.
NoSelection == [type |-> "", price |-> 0]

\* ---------------------------------------------------------- tradingService

\* updateDoc(docRef, data): field-level merge into the stored document.  Every
\* caller spreads a whole MarketPrice; the two back-reference fields are
\* written only when the spread object carries them.
updateDoc(stored, data) ==
    [stored EXCEPT
        !.userId = data.userId,
        !.bidPrice = data.bidPrice,
        !.bidAmount = data.bidAmount,
        !.offerPrice = data.offerPrice,
        !.offerAmount = data.offerAmount,
        !.status = data.status,
        !.lastTradeId = IF data.lastTradeId # 0 THEN data.lastTradeId ELSE @,
        !.executedTradeId = IF data.executedTradeId # 0 THEN data.executedTradeId ELSE @]

\* subscribeToMarketPrices: the query where('status', '==', 'active').
ActiveDocs(qs) ==
    [q \in QuoteIds |-> IF qs[q].status = "active" THEN qs[q] ELSE NoDoc]

\* cancelMarketPrice: updateDoc(docRef, {status: 'canceled', timestamp}).
cancelMarketPrice(stored) == [stored EXCEPT !.status = "canceled"]

\* getUserMarketPrices: the query where('userId', '==', userId), every status.
getUserMarketPrices(qs, u) ==
    [q \in QuoteIds |-> IF qs[q].userId = u THEN qs[q].status ELSE "none"]

\* ----------------------------------------------------------------- Trading

\* userActivePrice: the first document of the local copy owned by the user.
userActivePrice(mps, u) ==
    LET mine == {q \in QuoteIds : mps[q].userId = u /\ mps[q].status = "active"}
    IN  IF mine = {} THEN 0 ELSE CHOOSE q \in mine : \A r \in mine : q <= r

\* The effect on userActivePrice: a defined value sets currentQuote, an
\* undefined one leaves it alone.
SyncCurrentQuote(mps, u, cq) ==
    IF userActivePrice(mps, u) # 0 THEN userActivePrice(mps, u) ELSE cq


\* bestBid / bestOffer: the highest active bid and the lowest active offer of
\* the local copy, 0 when there is none.
bestBid(mps) ==
    LET bids == {mps[q].bidPrice : q \in {r \in QuoteIds :
                    mps[r].status = "active" /\ mps[r].bidPrice > 0}}
    IN  IF bids = {} THEN 0 ELSE CHOOSE p \in bids : \A r \in bids : p >= r

bestOffer(mps) ==
    LET offers == {mps[q].offerPrice : q \in {r \in QuoteIds :
                      mps[r].status = "active" /\ mps[r].offerPrice > 0}}
    IN  IF offers = {} THEN 0 ELSE CHOOSE p \in offers : \A r \in offers : p <= r

\* The price of a document on the side a box shows.
boxPrice(mp, type) == IF type = "bid" THEN mp.bidPrice ELSE mp.offerPrice

\* isUserBestBidMaker / isUserBestOfferMaker: the first active document at the
\* best price is the user's.
isUserBestMaker(mps, u, type) ==
    LET best == IF type = "bid" THEN bestBid(mps) ELSE bestOffer(mps)
        at == {q \in QuoteIds : mps[q].status = "active" /\ boxPrice(mps[q], type) = best}
    IN  at # {} /\ mps[CHOOSE q \in at : \A r \in at : q <= r].userId = u

\* matchingPrice of the trade box: the first document of the local copy at the
\* selected price (0 = undefined).
matchingPrice(mps, u, sel) ==
    LET at == {q \in QuoteIds : /\ mps[q].status # "none"
                                /\ boxPrice(mps[q], sel.type) = sel.price}
    IN  IF at = {} THEN 0 ELSE CHOOSE q \in at : \A r \in at : q <= r

\* handleSubmit, the checks before the write (the form holds bp, ba, op_, oa).
\* Lowest active offer / highest active bid of the other users in the local copy.
\* (lowestOfferAnyUser: the lowest active offer, the user's own included.)
lowestOfferAnyUser(mps, u) ==
    LET others == {mps[q].offerPrice : q \in {r \in QuoteIds :
                      mps[r].status = "active" /\ mps[r].offerPrice > 0}}
    IN  IF others = {} THEN 1000000
        ELSE CHOOSE p \in others : \A r \in others : p <= r

lowestOfferExcludingUser(mps, u) ==
    LET others == {mps[q].offerPrice : q \in {r \in QuoteIds :
                      mps[r].status = "active" /\ mps[r].userId # u /\ mps[r].offerPrice > 0}}
    IN  IF others = {} THEN 1000000
        ELSE CHOOSE p \in others : \A r \in others : p <= r

highestBidExcludingUser(mps, u) ==
    LET others == {mps[q].bidPrice : q \in {r \in QuoteIds :
                      mps[r].status = "active" /\ mps[r].userId # u /\ mps[r].bidPrice > 0}}
    IN  IF others = {} THEN 0
        ELSE CHOOSE p \in others : \A r \in others : p >= r

\* (SubmitAcceptedLocked: the checks without bid < offer.)
SubmitAcceptedLocked(mps, u, bp, op_) ==
    /\ ~(bp <= 0 \/ op_ <= 0)
    /\ ~(bp >= lowestOfferExcludingUser(mps, u))
    /\ ~(op_ <= highestBidExcludingUser(mps, u))

\* (SubmitAcceptedUnpriced: the checks without the one of the required fields.)
SubmitAcceptedUnpriced(mps, u, bp, op_) ==
    /\ ~(bp >= op_)
    /\ ~(bp >= lowestOfferExcludingUser(mps, u))
    /\ ~(op_ <= highestBidExcludingUser(mps, u))

\* (SubmitAcceptedOwnOnly: the checks without the two against the market.)
SubmitAcceptedOwnOnly(mps, u, bp, op_) ==
    /\ ~(bp <= 0 \/ op_ <= 0)
    /\ ~(bp >= op_)

SubmitAccepted(mps, u, bp, op_) ==
    /\ ~(bp <= 0 \/ op_ <= 0)
    /\ ~(bp >= op_)
    /\ ~(bp >= lowestOfferExcludingUser(mps, u))
    /\ ~(op_ <= highestBidExcludingUser(mps, u))

\* The check of handleSubmit that fails first, by the error it sets.
submitError(mps, u, bp, op_) ==
    IF bp <= 0 \/ op_ <= 0 THEN "RequiredFields"
    ELSE IF bp >= op_ THEN "BidNotBelowOffer"
    ELSE IF bp >= lowestOfferExcludingUser(mps, u) THEN "BidCrossesMarket"
    ELSE "OfferCrossesMarket"

\* quoteData of handleSubmit.
quoteData(u, bp, ba, op_, oa) == MarketPrice(u, bp, ba, op_, oa, "active", 0, 0)

\* executeTrade of the page: what it computes from the document it was handed.
availableAmount(mp, side) == IF side = "hit" THEN mp.bidAmount ELSE mp.offerAmount

tradePrice(mp, side) == IF side = "hit" THEN mp.bidPrice ELSE mp.offerPrice

\* buyerId with the two roles the wrong way round.
buyerIdSwapped(mp, side, u) == IF side = "hit" THEN u ELSE mp.userId

buyerId(mp, side, u) == IF side = "hit" THEN mp.userId ELSE u

sellerId(mp, side, u) == IF side = "hit" THEN u ELSE mp.userId

\* The trade object handed to tradingService.executeTrade.
tradeOf(mp, q, side, amount, u) ==
    [symbol |-> SYMBOL, price |-> tradePrice(mp, side), amount |-> amount,
     buyerId |-> buyerId(mp, side, u), sellerId |-> sellerId(mp, side, u),
     marketPriceId |-> q, side |-> side]

\* updatedMarketPrice / completedMarketPrice: the document the page writes with
\* updateMarketPrice before it calls tradingService.executeTrade.
preWrite(mp, side, amount) ==
    LET remainingAmount == availableAmount(mp, side) - amount
    IN  IF remainingAmount > 0
        THEN IF side = "hit" THEN [mp EXCEPT !.bidAmount = remainingAmount]
                             ELSE [mp EXCEPT !.offerAmount = remainingAmount]
        ELSE [mp EXCEPT !.status = "executed"]

\* tradingService.executeTrade, the body of the transaction.
\* The guards: the document exists and is active.
\* (txnAcceptsExisting: the transaction without its check of the status.)
txnAcceptsExisting(stored) == stored.status # "none"

txnAccepts(stored) == stored.status # "none" /\ stored.status = "active"

\* (txnQuoteUnguarded: the transaction writing the remaining amount whatever
\* its sign.)
txnQuoteUnguarded(stored, side, amount, tradeId) ==
    LET remainingAmount == availableAmount(stored, side) - amount
    IN  IF side = "hit"
        THEN [stored EXCEPT !.bidAmount = remainingAmount, !.lastTradeId = tradeId]
        ELSE [stored EXCEPT !.offerAmount = remainingAmount, !.lastTradeId = tradeId]

\* The quote document after the transaction's update.
txnQuote(stored, side, amount, tradeId) ==
    LET remainingAmount == availableAmount(stored, side) - amount
    IN  IF remainingAmount > 0
        THEN IF side = "hit"
             THEN [stored EXCEPT !.bidAmount = remainingAmount, !.lastTradeId = tradeId]
             ELSE [stored EXCEPT !.offerAmount = remainingAmount, !.lastTradeId = tradeId]
        ELSE [stored EXCEPT !.status = "executed", !.executedTradeId = tradeId]

\* tradeData: the document set in trades.
tradeData(trade, tradeId) ==
    [id |-> tradeId, symbol |-> trade.symbol, price |-> trade.price,
     amount |-> trade.amount, buyerId |-> trade.buyerId, sellerId |-> trade.sellerId,
     marketPriceId |-> trade.marketPriceId, side |-> trade.side]

\* (recordTradeInPlace: the trade set at the ledger's last document instead
\* of a fresh one.)
recordTradeInPlace(ledger, td) ==
    IF ledger = <<>> THEN <<td>> ELSE [ledger EXCEPT ![Len(ledger)] = td]

\* transaction.set(tradeRef, tradeData) with tradeRef a fresh document of
\* trades.
recordTrade(ledger, td) == Append(ledger, td)

\* One entry of users/{uid}/trades: {tradeId, role, ...tradeData}.
historyEntry(uid, role, td) ==
    [user |-> uid, tradeId |-> td.id, role |-> role, symbol |-> td.symbol,
     price |-> td.price, amount |-> td.amount, buyerId |-> td.buyerId,
     sellerId |-> td.sellerId, marketPriceId |-> td.marketPriceId, side |-> td.side]

\* (historyEntriesBuyerOnly: the transaction without the seller's entry.)
historyEntriesBuyerOnly(td) == {historyEntry(td.buyerId, "buyer", td)}

\* The two entries the transaction sets.
historyEntries(td) ==
    {historyEntry(td.buyerId, "buyer", td), historyEntry(td.sellerId, "seller", td)}

\* Net Position and Profit Summary: the loop over trades for the user uid.
RECURSIVE tally(_, _)
\* (tallyLong: the loop without the seller's branch.)
tallyLong(ledger, uid) ==
    IF ledger = <<>>
    THEN [netPosition |-> 0, totalBuyValue |-> 0, totalBuyQuantity |-> 0,
          totalSellValue |-> 0, totalSellQuantity |-> 0]
    ELSE LET acc == tally(SubSeq(ledger, 1, Len(ledger) - 1), uid)
             trade == ledger[Len(ledger)]
         IN  IF trade.buyerId = uid
             THEN [acc EXCEPT !.netPosition = @ + trade.amount,
                              !.totalBuyValue = @ + trade.price * trade.amount,
                              !.totalBuyQuantity = @ + trade.amount]
             ELSE acc

\* (tallySellerFirst: the loop with else-if between the two branches.)
tallySellerFirst(ledger, uid) ==
    IF ledger = <<>>
    THEN [netPosition |-> 0, totalBuyValue |-> 0, totalBuyQuantity |-> 0,
          totalSellValue |-> 0, totalSellQuantity |-> 0]
    ELSE LET acc == tally(SubSeq(ledger, 1, Len(ledger) - 1), uid)
             trade == ledger[Len(ledger)]
         IN  IF trade.sellerId = uid
             THEN [acc EXCEPT !.netPosition = @ - trade.amount,
                              !.totalSellValue = @ + trade.price * trade.amount,
                              !.totalSellQuantity = @ + trade.amount]
             ELSE IF trade.buyerId = uid
             THEN [acc EXCEPT !.netPosition = @ + trade.amount,
                              !.totalBuyValue = @ + trade.price * trade.amount,
                              !.totalBuyQuantity = @ + trade.amount]
             ELSE acc

tally(ledger, uid) ==
    IF ledger = <<>>
    THEN [netPosition |-> 0, totalBuyValue |-> 0, totalBuyQuantity |-> 0,
          totalSellValue |-> 0, totalSellQuantity |-> 0]
    ELSE LET acc == tally(SubSeq(ledger, 1, Len(ledger) - 1), uid)
             trade == ledger[Len(ledger)]
             tradeValue == trade.price * trade.amount
             bought == IF trade.buyerId = uid
                       THEN [acc EXCEPT !.netPosition = @ + trade.amount,
                                        !.totalBuyValue = @ + tradeValue,
                                        !.totalBuyQuantity = @ + trade.amount]
                       ELSE acc
         IN  IF trade.sellerId = uid
             THEN [bought EXCEPT !.netPosition = @ - trade.amount,
                                 !.totalSellValue = @ + tradeValue,
                                 !.totalSellQuantity = @ + trade.amount]
             ELSE bought

\* (value / quantity).toFixed(2), in hundredths: the nearest hundredth, the
\* larger one of two equally near.
toFixed2(value, quantity) == (200 * value + quantity) \div (2 * quantity)

\* The figures computed after the loop; the prices and the P&L in hundredths.
profitSummary(ledger, uid) ==
    LET t == tally(ledger, uid)
        avgBuyPrice == IF t.totalBuyQuantity > 0
                       THEN toFixed2(t.totalBuyValue, t.totalBuyQuantity) ELSE 0
        avgSellPrice == IF t.totalSellQuantity > 0
                        THEN toFixed2(t.totalSellValue, t.totalSellQuantity) ELSE 0
        minQuantity == IF t.totalBuyQuantity <= t.totalSellQuantity
                       THEN t.totalBuyQuantity ELSE t.totalSellQuantity
    IN  [netPosition |-> t.netPosition,
         totalBuyQuantity |-> t.totalBuyQuantity,
         totalSellQuantity |-> t.totalSellQuantity,
         avgBuyPrice |-> avgBuyPrice,
         avgSellPrice |-> avgSellPrice,
         realizedPnL |-> IF minQuantity > 0
                         THEN (avgSellPrice - avgBuyPrice) * minQuantity ELSE 0]

\* ------------------------------------------------------------------ actions

Existing == {q \in QuoteIds : quotes[q].status # "none"}

Init ==
    /\ quotes = [q \in QuoteIds |-> NoDoc]
    /\ trades = <<>>
    /\ userTrades = {}
    /\ marketPrices = [u \in Users |-> [q \in QuoteIds |-> NoDoc]]
    /\ userMarketPrices = [u \in Users |-> [q \in QuoteIds |-> "none"]]
    /\ currentQuote = [u \in Users |-> 0]
    /\ selectedPrice = [u \in Users |-> NoSelection]
    /\ summary = [u \in Users |-> profitSummary(<<>>, u)]
    /\ op = [u \in Users |-> NoOp]
    /\ posted = [q \in QuoteIds |-> [bidAmount |-> 0, offerAmount |-> 0, at |-> 0]]
    /\ submits = 0
    /\ fills = 0

\* A listener that delivers the first snapshot only (a one-time read in place
\* of onSnapshot).
SnapshotDeliveredOnce(u) ==
    /\ \A q \in QuoteIds : marketPrices[u][q].status = "none"
    /\ marketPrices[u] # ActiveDocs(quotes)
    /\ marketPrices' = [marketPrices EXCEPT ![u] = ActiveDocs(quotes)]
    /\ currentQuote' = [currentQuote EXCEPT
                          ![u] = SyncCurrentQuote(ActiveDocs(quotes), u, @)]
    /\ UNCHANGED <<summary, selectedPrice, quotes, trades, userTrades, userMarketPrices, op, posted, submits, fills>>

\* The onSnapshot callback: setMarketPrices(prices), then the effect on
\* userActivePrice.
SnapshotDelivered(u) ==
    /\ marketPrices[u] # ActiveDocs(quotes)
    /\ marketPrices' = [marketPrices EXCEPT ![u] = ActiveDocs(quotes)]
    /\ currentQuote' = [currentQuote EXCEPT
                          ![u] = SyncCurrentQuote(ActiveDocs(quotes), u, @)]
    /\ UNCHANGED <<summary, selectedPrice, quotes, trades, userTrades, userMarketPrices, op, posted, submits, fills>>

\* handleSubmit with currentQuote set: the checks pass and
\* tradingService.updateMarketPrice(currentQuote, quoteData) writes.
handleSubmitUpdate(u, bp, ba, op_, oa) ==
    /\ op[u].pc # "txn"
    /\ submits < MaxSubmits
    /\ SubmitAccepted(marketPrices[u], u, bp, op_)
    /\ currentQuote[u] # 0
    /\ quotes' = [quotes EXCEPT
                    ![currentQuote[u]] = updateDoc(@, quoteData(u, bp, ba, op_, oa))]
    /\ posted' = [posted EXCEPT ![currentQuote[u]] =
                    [bidAmount |-> ba, offerAmount |-> oa, at |-> Len(trades)]]
    /\ op' = [op EXCEPT ![u] = NoOp]
    /\ submits' = submits + 1
    /\ UNCHANGED <<summary, selectedPrice, trades, userTrades, marketPrices, userMarketPrices, currentQuote, fills>>

\* handleSubmit with no currentQuote: the checks pass,
\* tradingService.saveMarketPrice(quoteData) adds a document, and the page
\* stores the new id in currentQuote.
handleSubmitSave(u, bp, ba, op_, oa) ==
    /\ op[u].pc # "txn"
    /\ submits < MaxSubmits
    /\ SubmitAccepted(marketPrices[u], u, bp, op_)
    /\ currentQuote[u] = 0
    /\ Cardinality(Existing) < MaxQuotes
    /\ LET free == QuoteIds \ Existing
           newQuoteId == CHOOSE q \in free : \A r \in free : q <= r
       IN  /\ quotes' = [quotes EXCEPT ![newQuoteId] = quoteData(u, bp, ba, op_, oa)]
           /\ posted' = [posted EXCEPT ![newQuoteId] =
                           [bidAmount |-> ba, offerAmount |-> oa, at |-> Len(trades)]]
           /\ currentQuote' = [currentQuote EXCEPT ![u] = newQuoteId]
    /\ op' = [op EXCEPT ![u] = NoOp]
    /\ submits' = submits + 1
    /\ UNCHANGED <<summary, selectedPrice, trades, userTrades, marketPrices, userMarketPrices, fills>>

\* The Hit Bid / Lift Offer button of a row of the price table, then
\* executeTrade of the page up to its second await: an amount above the
\* available one is refused; otherwise
\* tradingService.updateMarketPrice(marketPrice.id, updatedMarketPrice) writes
\* and the local copy is patched.
handleTrade(u, q, side, amount) ==
    /\ op[u].pc # "txn"
    /\ fills < MaxFills
    /\ marketPrices[u][q].status = "active"
    /\ marketPrices[u][q].userId # u
    /\ ~(amount <= 0)
    /\ ~(amount > availableAmount(marketPrices[u][q], side))
    /\ LET mp == marketPrices[u][q]
           written == preWrite(mp, side, amount)
           patched == [marketPrices[u] EXCEPT ![q] = written]
       IN  /\ quotes' = [quotes EXCEPT ![q] = updateDoc(@, written)]
           /\ marketPrices' = [marketPrices EXCEPT ![u] = patched]
           /\ currentQuote' = [currentQuote EXCEPT
                                 ![u] = SyncCurrentQuote(patched, u, @)]
           /\ op' = [op EXCEPT ![u] =
                       [pc |-> "txn", id |-> q, side |-> side, amount |-> amount,
                        doc |-> mp]]
    /\ fills' = fills + 1
    /\ UNCHANGED <<summary, selectedPrice, trades, userTrades, userMarketPrices, posted, submits>>

\* tradingService.executeTrade: the transaction commits; the page clears its
\* selection.
executeTradeCommit(u) ==
    /\ op[u].pc = "txn"
    /\ txnAccepts(quotes[op[u].id])
    /\ LET q == op[u].id
           tradeId == Len(trades) + 1
           td == tradeData(tradeOf(op[u].doc, q, op[u].side, op[u].amount, u), tradeId)
       IN  /\ trades' = recordTrade(trades, td)
           /\ quotes' = [quotes EXCEPT ![q] = txnQuote(@, op[u].side, op[u].amount, tradeId)]
           /\ userTrades' = userTrades \cup historyEntries(td)
    /\ op' = [op EXCEPT ![u] = NoOp]
    /\ selectedPrice' = [selectedPrice EXCEPT ![u] = NoSelection]
    /\ UNCHANGED <<summary, marketPrices, userMarketPrices, currentQuote, posted, submits, fills>>

\* A transaction that, on a quote that is not active, waits for the quote
\* instead of throwing.
executeTradeWait(u) ==
    /\ op[u].pc = "txn"
    /\ ~txnAccepts(quotes[op[u].id])
    /\ UNCHANGED vars

\* tradingService.executeTrade: the transaction throws and writes nothing; the
\* page shows the error and keeps its selection.
executeTradeThrow(u) ==
    /\ op[u].pc = "txn"
    /\ ~txnAccepts(quotes[op[u].id])
    /\ op' = [op EXCEPT ![u].pc = "StaleQuote", ![u].doc = NoDoc]
    /\ UNCHANGED <<summary, selectedPrice, quotes, trades, userTrades, marketPrices, userMarketPrices,
                   currentQuote, posted, submits, fills>>

\* handleSubmit, a check fails: setError and return, nothing is written.
handleSubmitRejected(u, bp, ba, op_, oa) ==
    /\ op[u].pc # "txn"
    /\ ~SubmitAccepted(marketPrices[u], u, bp, op_)
    /\ op' = [op EXCEPT ![u] = [NoOp EXCEPT !.pc = submitError(marketPrices[u], u, bp, op_)]]
    /\ UNCHANGED <<summary, selectedPrice, quotes, trades, userTrades, marketPrices, userMarketPrices,
                   currentQuote, posted, submits, fills>>

\* The New Quote button (shown while currentQuote is set).
handleNewQuote(u) ==
    /\ op[u].pc # "txn"
    /\ currentQuote[u] # 0
    /\ currentQuote' = [currentQuote EXCEPT ![u] = 0]
    /\ op' = [op EXCEPT ![u] = NoOp]
    /\ UNCHANGED <<summary, selectedPrice, quotes, trades, userTrades, marketPrices, userMarketPrices, posted,
                   submits, fills>>

\* The Pull Price button (shown while currentQuote is set):
\* tradingService.cancelMarketPrice(currentQuote), then handleNewQuote.
handlePullPrice(u) ==
    /\ op[u].pc # "txn"
    /\ currentQuote[u] # 0
    /\ quotes' = [quotes EXCEPT ![currentQuote[u]] = cancelMarketPrice(@)]
    /\ userMarketPrices' = [userMarketPrices EXCEPT ![u][currentQuote[u]] =
                               IF @ = "none" THEN @ ELSE "canceled"]
    /\ currentQuote' = [currentQuote EXCEPT ![u] = 0]
    /\ op' = [op EXCEPT ![u] = NoOp]
    /\ UNCHANGED <<summary, selectedPrice, trades, userTrades, marketPrices, posted, submits, fills>>

\* The Cancel button of a row of Your Quotes (shown while the row's status is
\* active): tradingService.cancelMarketPrice(id), then handleNewQuote if id is
\* the current quote.
handleCancel(u, id) ==
    /\ op[u].pc # "txn"
    /\ userMarketPrices[u][id] = "active"
    /\ quotes' = [quotes EXCEPT ![id] = cancelMarketPrice(@)]
    /\ userMarketPrices' = [userMarketPrices EXCEPT ![u][id] = "canceled"]
    /\ currentQuote' = [currentQuote EXCEPT ![u] = IF id = @ THEN 0 ELSE @]
    /\ op' = [op EXCEPT ![u] = IF id = currentQuote[u] THEN NoOp ELSE @]
    /\ UNCHANGED <<summary, selectedPrice, trades, userTrades, marketPrices, posted, submits, fills>>

\* The page is loaded again: its state starts over and the effect on
\* currentUser fetches the user's quotes.
Mount(u) ==
    /\ op[u].pc # "txn"
    /\ userMarketPrices[u] # getUserMarketPrices(quotes, u)
    /\ marketPrices' = [marketPrices EXCEPT ![u] = [q \in QuoteIds |-> NoDoc]]
    /\ userMarketPrices' = [userMarketPrices EXCEPT ![u] = getUserMarketPrices(quotes, u)]
    /\ currentQuote' = [currentQuote EXCEPT ![u] = 0]
    /\ op' = [op EXCEPT ![u] = NoOp]
    /\ UNCHANGED <<summary, selectedPrice, quotes, trades, userTrades, posted, submits, fills>>

Next ==
    \/ \E u \in Users : SnapshotDelivered(u)
    \/ \E u \in Makers, bp \in BidPrices, ba \in FormAmounts, op_ \in OfferPrices,
          oa \in FormAmounts :
          handleSubmitUpdate(u, bp, ba, op_, oa)
    \/ \E u \in Makers, bp \in BidPrices, ba \in FormAmounts, op_ \in OfferPrices,
          oa \in FormAmounts :
          handleSubmitSave(u, bp, ba, op_, oa)
    \/ \E u \in Takers, q \in QuoteIds, side \in Sides, amount \in Amounts :
          handleTrade(u, q, side, amount)
    \/ \E u \in Users : executeTradeCommit(u)
    \/ \E u \in Users : executeTradeThrow(u)

Spec == Init /\ [][Next]_vars

\* The book under two quoting users and one dealing user.
Quoters == {"X", "Y"}
Dealers == {"Z"}
FormBidPrices == {0, 1, 2}       \* bid prices typed, 0 = field left empty
FormOfferPrices == {2, 3}        \* offer prices typed
MaxBookFills == 1                \* fills started by the dealing user

BookNext ==
    \/ \E u \in Users : SnapshotDelivered(u)
    \/ \E u \in Quoters, bp \in FormBidPrices, ba \in FormAmounts,
          op_ \in FormOfferPrices, oa \in FormAmounts :
          handleSubmitUpdate(u, bp, ba, op_, oa)
    \/ \E u \in Quoters, bp \in FormBidPrices, ba \in FormAmounts,
          op_ \in FormOfferPrices, oa \in FormAmounts :
          handleSubmitSave(u, bp, ba, op_, oa)
    \/ \E u \in Quoters, bp \in FormBidPrices, ba \in FormAmounts,
          op_ \in FormOfferPrices, oa \in FormAmounts :
          handleSubmitRejected(u, bp, ba, op_, oa)
    \/ \E u \in Dealers, q \in QuoteIds, side \in Sides, amount \in Amounts :
          fills < MaxBookFills /\ handleTrade(u, q, side, amount)
    \/ \E u \in Users : executeTradeCommit(u)
    \/ \E u \in Users : executeTradeThrow(u)

BookSpec == Init /\ [][BookNext]_vars

\* The book when submissions are serialized: a quoting user presses Submit
\* only while its copy of the book is the stored one, and handleSubmit's checks
\* and its write are one step. Quoting users also pull; the dealing user fills.
UpToDate(u) == marketPrices[u] = ActiveDocs(quotes)

SerialNext ==
    \/ \E u \in Users : SnapshotDelivered(u)
    \/ \E u \in Quoters, bp \in FormBidPrices, ba \in FormAmounts,
          op_ \in FormOfferPrices, oa \in FormAmounts :
          UpToDate(u) /\ handleSubmitUpdate(u, bp, ba, op_, oa)
    \/ \E u \in Quoters, bp \in FormBidPrices, ba \in FormAmounts,
          op_ \in FormOfferPrices, oa \in FormAmounts :
          UpToDate(u) /\ handleSubmitSave(u, bp, ba, op_, oa)
    \/ \E u \in Quoters : handlePullPrice(u)
    \/ \E u \in Dealers, q \in QuoteIds, side \in Sides, amount \in Amounts :
          fills < MaxBookFills /\ handleTrade(u, q, side, amount)
    \/ \E u \in Users : executeTradeCommit(u)
    \/ \E u \in Users : executeTradeThrow(u)

SerialSpec == Init /\ [][SerialNext]_vars

\* One quoting user who also starts new quotes, pulls, cancels and reloads the
\* page, and one dealing user.
Owners == {"X"}
Clients == {"X", "Y"}

CancelNext ==
    \/ \E u \in Clients : SnapshotDelivered(u)
    \/ \E u \in Owners, bp \in BidPrices, ba \in FormAmounts, op_ \in OfferPrices,
          oa \in FormAmounts :
          handleSubmitUpdate(u, bp, ba, op_, oa)
    \/ \E u \in Owners, bp \in BidPrices, ba \in FormAmounts, op_ \in OfferPrices,
          oa \in FormAmounts :
          handleSubmitSave(u, bp, ba, op_, oa)
    \/ \E u \in Owners : handleNewQuote(u)
    \/ \E u \in Owners : handlePullPrice(u)
    \/ \E u \in Owners, id \in QuoteIds : handleCancel(u, id)
    \/ \E u \in Owners : Mount(u)
    \/ \E u \in Clients \ Owners, q \in QuoteIds, side \in Sides, amount \in Amounts :
          handleTrade(u, q, side, amount)
    \/ \E u \in Clients : executeTradeCommit(u)
    \/ \E u \in Clients : executeTradeThrow(u)

CancelSpec == Init /\ [][CancelNext]_vars

\* A click on the Best Bid / Best Offer box: handlePriceBoxClick, unless the
\* box is empty or shows the user's own quote.
handlePriceBoxClick(u, type) ==
    /\ op[u].pc # "txn"
    /\ LET best == IF type = "bid" THEN bestBid(marketPrices[u])
                   ELSE bestOffer(marketPrices[u])
       IN  /\ best > 0
           /\ ~isUserBestMaker(marketPrices[u], u, type)
           /\ selectedPrice' = [selectedPrice EXCEPT ![u] =
                  IF @ = [type |-> type, price |-> best] THEN NoSelection
                  ELSE [type |-> type, price |-> best]]
    /\ UNCHANGED <<quotes, trades, userTrades, marketPrices, userMarketPrices, currentQuote,
                   summary, op, posted, submits, fills>>

\* The Hit Bid / Lift Offer button of the trade box, then executeTrade of the
\* page up to its second await, on the matching price.
tradeBoxClick(u, amount) ==
    /\ op[u].pc # "txn"
    /\ fills < MaxFills
    /\ selectedPrice[u].type # ""
    /\ ~(amount <= 0)
    /\ matchingPrice(marketPrices[u], u, selectedPrice[u]) # 0
    /\ LET q == matchingPrice(marketPrices[u], u, selectedPrice[u])
           side == IF selectedPrice[u].type = "bid" THEN "hit" ELSE "lift"
           mp == marketPrices[u][q]
           written == preWrite(mp, side, amount)
           patched == [marketPrices[u] EXCEPT ![q] = written]
       IN  /\ ~(amount > availableAmount(mp, side))
           /\ quotes' = [quotes EXCEPT ![q] = updateDoc(@, written)]
           /\ marketPrices' = [marketPrices EXCEPT ![u] = patched]
           /\ currentQuote' = [currentQuote EXCEPT
                                 ![u] = SyncCurrentQuote(patched, u, @)]
           /\ op' = [op EXCEPT ![u] =
                       [pc |-> "txn", id |-> q, side |-> side, amount |-> amount,
                        doc |-> mp]]
    /\ fills' = fills + 1
    /\ UNCHANGED <<trades, userTrades, userMarketPrices, selectedPrice, summary, posted,
                   submits>>

\* Two users who both post quotes and trade from the best-bid / best-offer
\* boxes.
BoxUsers == {"X", "Y"}
BoxBidPrices == {1}
BoxOfferPrices == {3}

BoxNext ==
    \/ \E u \in BoxUsers : SnapshotDelivered(u)
    \/ \E u \in BoxUsers, bp \in BoxBidPrices, ba \in FormAmounts, op_ \in BoxOfferPrices,
          oa \in FormAmounts :
          handleSubmitUpdate(u, bp, ba, op_, oa)
    \/ \E u \in BoxUsers, bp \in BoxBidPrices, ba \in FormAmounts, op_ \in BoxOfferPrices,
          oa \in FormAmounts :
          handleSubmitSave(u, bp, ba, op_, oa)
    \/ \E u \in BoxUsers : handlePullPrice(u)
    \/ \E u \in BoxUsers, type \in {"bid", "offer"} : handlePriceBoxClick(u, type)
    \/ \E u \in BoxUsers, amount \in Amounts : tradeBoxClick(u, amount)
    \/ \E u \in BoxUsers : executeTradeCommit(u)
    \/ \E u \in BoxUsers : executeTradeThrow(u)

BoxSpec == Init /\ [][BoxNext]_vars

\* One user posts, edits and pulls quotes and two others hit the bid, under
\* the scheduling the code relies on: the listener of each client delivers the latest snapshot,
\* and a transaction that was started runs to its end.
FairAmounts == {MaxAmount - 1, MaxAmount}    \* amounts typed into a trade box

FairNext ==
    \/ \E u \in Users : SnapshotDelivered(u)
    \/ \E u \in Makers, bp \in BoxBidPrices, ba \in FormAmounts, op_ \in BoxOfferPrices,
          oa \in FormAmounts :
          handleSubmitUpdate(u, bp, ba, op_, oa)
    \/ \E u \in Makers, bp \in BoxBidPrices, ba \in FormAmounts, op_ \in BoxOfferPrices,
          oa \in FormAmounts :
          handleSubmitSave(u, bp, ba, op_, oa)
    \/ \E u \in Makers : handlePullPrice(u)
    \/ \E u \in Takers, q \in QuoteIds, amount \in FairAmounts :
          handleTrade(u, q, "hit", amount)
    \/ \E u \in Users : executeTradeCommit(u)
    \/ \E u \in Users : executeTradeThrow(u)

Fairness ==
    \A u \in Users :
        /\ WF_vars(SnapshotDelivered(u))
        /\ WF_vars(executeTradeCommit(u) \/ executeTradeThrow(u))

FairSpec == Init /\ [][FairNext]_vars /\ Fairness

\* The ledger as any sequence of trades, and the summary every client renders
\* from it.
MaxLedger == 3                   \* trades in the ledger
LedgerPrices == {1, 2}
LedgerAmounts == {1, 2}

\* The callback of subscribeToTrades: setTrades(newTrades), and the summary is
\* rendered from the new list.  The trade that arrived is any trade.
tradesDelivered(price, amount, buyer, seller, side) ==
    /\ Len(trades) < MaxLedger
    /\ LET trade == [symbol |-> SYMBOL, price |-> price, amount |-> amount,
                     buyerId |-> buyer, sellerId |-> seller, marketPriceId |-> 1,
                     side |-> side]
       IN  trades' = recordTrade(trades, tradeData(trade, Len(trades) + 1))
    /\ summary' = [u \in Users |-> profitSummary(trades', u)]
    /\ UNCHANGED <<quotes, userTrades, marketPrices, userMarketPrices, currentQuote,
                   selectedPrice, op, posted, submits, fills>>

LedgerNext ==
    \E price \in LedgerPrices, amount \in LedgerAmounts, buyer \in Users, seller \in Users,
       side \in Sides :
        tradesDelivered(price, amount, buyer, seller, side)

LedgerSpec == Init /\ [][LedgerNext]_vars

\* ------------------------------------------------------------------ claims

\* The step in which u's transaction commits, and the trade it appends.
CommitBy(u) ==
    /\ op[u].pc = "txn"
    /\ op'[u].pc = "idle"
    /\ Len(trades') = Len(trades) + 1

\* The step in which u's executeTrade ends, either way.
ResolvedBy(u) == op[u].pc = "txn" /\ op'[u].pc # "txn"

Committed == trades'[Len(trades')]

\* The store holds for u's target exactly what u's own pre-write made of the
\* document u was handed: nothing else has touched the quote since the
\* snapshot u acted on.
Undisturbed(u) ==
    /\ op[u].pc = "txn"
    /\ quotes[op[u].id] = preWrite(op[u].doc, op[u].side, op[u].amount)

RECURSIVE FilledSince(_, _, _)
\* Sum of the amounts of the trades after the first `from` ones that match
\* quote q on `side`.
FilledSince(from, q, side) ==
    IF from >= Len(trades) THEN 0
    ELSE (IF trades[from + 1].marketPriceId = q /\ trades[from + 1].side = side
          THEN trades[from + 1].amount ELSE 0) + FilledSince(from + 1, q, side)

PostedAmount(q, side) ==
    IF side = "hit" THEN posted[q].bidAmount ELSE posted[q].offerAmount

\* C1: the trades committed on one side of a quote since its owner last
\* submitted or edited it never add up to more than the amount the owner put
\* on that side.
NoOverFill ==
    \A q \in QuoteIds, side \in Sides :
        FilledSince(posted[q].at, q, side) <= PostedAmount(q, side)

\* C2 (scenario D): of two requests to hit the whole bid of a quote that was
\* posted once and never edited, exactly one commits: the ledger never holds
\* two such trades, and the two requests never both end in StaleQuote with no
\* trade committed against the quote.
FailedFullHit(u, q) ==
    /\ op[u].pc = "StaleQuote"
    /\ op[u].id = q
    /\ op[u].side = "hit"
    /\ op[u].amount = posted[q].bidAmount

ScenarioD ==
    \A q \in QuoteIds :
        submits = 1 /\ quotes[q].status # "none" =>
            /\ Cardinality({i \in 1 .. Len(trades) :
                   /\ trades[i].marketPriceId = q
                   /\ trades[i].side = "hit"
                   /\ trades[i].amount = posted[q].bidAmount}) <= 1
            /\ \A u, v \in Users :
                   u # v /\ FailedFullHit(u, q) /\ FailedFullHit(v, q) =>
                       \E i \in 1 .. Len(trades) : trades[i].marketPriceId = q

\* C3: a fill of less than the available amount that commits with nothing
\* else touching the quote leaves the consumed side at available minus
\* requested, and the quote active.
PartialFillConservation ==
    [][\A u \in Users :
          (/\ CommitBy(u)
           /\ Undisturbed(u)
           /\ op[u].amount < availableAmount(op[u].doc, op[u].side))
          => /\ availableAmount(quotes'[op[u].id], op[u].side)
                  = availableAmount(op[u].doc, op[u].side) - op[u].amount
             /\ quotes'[op[u].id].status = "active"]_vars

\* C4: a fill of exactly the available amount, with nothing else touching the
\* quote, commits a trade of that amount, and leaves the quote executed with
\* the consumed side at 0.
FullFill ==
    [][\A u \in Users :
          (/\ ResolvedBy(u)
           /\ Undisturbed(u)
           /\ op[u].amount = availableAmount(op[u].doc, op[u].side))
          => /\ CommitBy(u)
             /\ Committed.amount = op[u].amount
             /\ quotes'[op[u].id].status = "executed"
             /\ availableAmount(quotes'[op[u].id], op[u].side) = 0]_vars

TradePriceIsRestingPrice ==
    [][\A u \in Users :
          CommitBy(u) =>
              Committed.price = IF op[u].side = "hit"
                                THEN quotes[op[u].id].bidPrice
                                ELSE quotes[op[u].id].offerPrice]_vars

\* C7: a trade commits only if its amount is positive and no larger than the
\* consumed side's amount held in the store at the moment of the commit.
InvalidAmount ==
    [][\A u \in Users :
          CommitBy(u) =>
              /\ 0 < Committed.amount
              /\ Committed.amount <= IF op[u].side = "hit"
                                     THEN quotes[op[u].id].bidAmount
                                     ELSE quotes[op[u].id].offerAmount]_vars

\* C8: an executeTrade whose target is missing or not active when its
\* transaction runs ends in StaleQuote, and appends no trade and no history
\* entry.
StaleQuote ==
    [][\A u \in Users :
          ResolvedBy(u) /\ quotes[op[u].id].status # "active" =>
              /\ op'[u].pc = "StaleQuote"
              /\ trades' = trades
              /\ userTrades' = userTrades]_vars

\* C8 witness: an executeTrade has ended in StaleQuote.
StaleQuoteWitness ==
    \E u \in Users : op[u].pc = "StaleQuote" /\ quotes[op[u].id].status = "executed"

\* C9: a quote shows a fill (status executed, or an amount below the one its
\* owner posted) only if a trade against it, on that side, is in the ledger.
AllOrNothing ==
    \A q \in QuoteIds :
        /\ quotes[q].status = "executed" =>
              \E i \in 1 .. Len(trades) : trades[i].marketPriceId = q
        /\ \A side \in Sides :
              quotes[q].status # "none"
              /\ availableAmount(quotes[q], side) < PostedAmount(q, side) =>
                  \E i \in 1 .. Len(trades) :
                      trades[i].marketPriceId = q /\ trades[i].side = side

\* The fields a history entry shares with its ledger record.
SameFact(e, t) ==
    /\ e.tradeId = t.id
    /\ e.symbol = t.symbol
    /\ e.price = t.price
    /\ e.amount = t.amount
    /\ e.buyerId = t.buyerId
    /\ e.sellerId = t.sellerId
    /\ e.marketPriceId = t.marketPriceId
    /\ e.side = t.side

\* C10: each trade of the ledger has exactly one entry in its buyer's history
\* and exactly one in its seller's, and no others; the entries carry the
\* record's fields; no entry is without its record.
LedgerAndHistoriesAgree ==
    /\ \A i \in 1 .. Len(trades) :
          LET t == trades[i]
              copies == {e \in userTrades : e.tradeId = t.id}
          IN  /\ t.id = i
              /\ Cardinality({e \in copies : e.user = t.buyerId /\ e.role = "buyer"}) = 1
              /\ Cardinality({e \in copies : e.user = t.sellerId /\ e.role = "seller"}) = 1
              /\ Cardinality(copies) = 2
              /\ \A e \in copies : SameFact(e, t)
    /\ \A e \in userTrades : e.tradeId \in 1 .. Len(trades)

\* C10 witness: two trades are in the ledger, with their four entries.
LedgerAndHistoriesAgreeWitness ==
    Len(trades) = 2 /\ Cardinality(userTrades) = 4

\* The fields of a quote that a terminal state freezes.
Frozen(d) ==
    <<d.status, d.bidPrice, d.bidAmount, d.offerPrice, d.offerAmount>>

\* C12: once a quote is canceled or executed, no step changes its status or
\* any of its price and amount fields.
TerminalStates ==
    [][\A q \in QuoteIds :
          quotes[q].status \in {"canceled", "executed"} =>
              Frozen(quotes'[q]) = Frozen(quotes[q])]_vars

\* C17: every trade of the ledger stays in the ledger, at its place and with
\* all its fields, in every step.
AppendOnlyLedger ==
    [][/\ Len(trades') >= Len(trades)
       /\ \A i \in 1 .. Len(trades) : trades'[i] = trades[i]]_vars

\* C17 witness: a trade was appended to a ledger that already held one, and
\* the quote of the first trade has been canceled since.
AppendOnlyLedgerWitness ==
    /\ Len(trades) = 2
    /\ trades[1] # trades[2]
    /\ quotes[trades[1].marketPriceId].status = "canceled"

IdempotentCancel ==
    [][\A q \in QuoteIds :
          /\ quotes[q].status \in {"canceled", "executed"}
          /\ quotes'[q].status = "canceled"
          => quotes'[q] = quotes[q]]_vars

\* C13: a quote canceled before a racing fill commits stays canceled and gets
\* no trade; a quote executed by a committed fill is not turned into a
\* canceled one by the cancel that lost.
CancelFillRace ==
    [][\A q \in QuoteIds :
          /\ quotes[q].status = "canceled" =>
                /\ quotes'[q].status = "canceled"
                /\ Len(trades') > Len(trades) => Committed.marketPriceId # q
          /\ quotes[q].status = "executed" /\ quotes[q].executedTradeId # 0 =>
                quotes'[q].status # "canceled"]_vars

\* C14: no user owns two quotes with status active.
OneActiveQuotePerOwner ==
    \A u \in Users :
        Cardinality({q \in QuoteIds :
                        quotes[q].userId = u /\ quotes[q].status = "active"}) <= 1

\* The step is an accepted submission of u that wrote quote q.
AcceptedBy(u, q) ==
    /\ submits' = submits + 1
    /\ quotes'[q] # quotes[q]
    /\ quotes'[q].userId = u

\* The step is a submission of u refused with error e.
RejectedBy(u, e) == op'[u] # op[u] /\ op'[u].pc = e

\* C15: every submission that writes has bidPrice > 0, offerPrice > 0 and
\* bidPrice < offerPrice, and a submission refused for its own prices writes
\* nothing.
SubmissionInvariant ==
    [][\A u \in Users :
          /\ \A q \in QuoteIds :
                AcceptedBy(u, q) =>
                    /\ quotes'[q].bidPrice > 0
                    /\ quotes'[q].offerPrice > 0
                    /\ quotes'[q].bidPrice < quotes'[q].offerPrice
          /\ RejectedBy(u, "RequiredFields") \/ RejectedBy(u, "BidNotBelowOffer") =>
                /\ quotes' = quotes
                /\ submits' = submits]_vars

\* C15 witness: a submission was refused for bid >= offer while the book held
\* a quote.
SubmissionInvariantWitness ==
    \E u \in Users : op[u].pc = "BidNotBelowOffer" /\ Existing # {}

\* The active quotes of other users in u's local copy.
OthersActive(u) ==
    {r \in QuoteIds : marketPrices[u][r].status = "active" /\ marketPrices[u][r].userId # u}

\* C16: a submission that writes has its bid below every active offer and its
\* offer above every active bid of the other users in the submitter's local
\* copy; a submission refused for crossing the market writes nothing, and it
\* is refused against a quote of another user.
AntiCross ==
    [][\A u \in Users :
          /\ \A q \in QuoteIds :
                AcceptedBy(u, q) =>
                    \A r \in OthersActive(u) :
                        /\ quotes'[q].bidPrice < marketPrices[u][r].offerPrice
                        /\ quotes'[q].offerPrice > marketPrices[u][r].bidPrice
          /\ RejectedBy(u, "BidCrossesMarket") \/ RejectedBy(u, "OfferCrossesMarket") =>
                /\ quotes' = quotes
                /\ submits' = submits
                /\ OthersActive(u) # {}]_vars

\* C16 witness: one user was refused for a crossing bid, the other for a
\* crossing offer.
AntiCrossWitness ==
    \E u, v \in Users :
        op[u].pc = "BidCrossesMarket" /\ op[v].pc = "OfferCrossesMarket"

\* C18: every quote with status active has 0 < bidPrice < offerPrice.
UncrossedOwnQuote ==
    \A q \in QuoteIds :
        quotes[q].status = "active" =>
            0 < quotes[q].bidPrice /\ quotes[q].bidPrice < quotes[q].offerPrice

\* C18 witness: an active quote carries a committed partial fill, and its
\* owner has edited it since the dealing user's snapshot (the dealing user's
\* writes came from the older document).
UncrossedOwnQuoteWitness ==
    \E q \in QuoteIds :
        /\ quotes[q].status = "active"
        /\ quotes[q].lastTradeId # 0
        /\ trades[quotes[q].lastTradeId].price # quotes[q].bidPrice
        /\ trades[quotes[q].lastTradeId].side = "hit"

\* Two active quotes of different owners, one's bid at or above the other's
\* offer.
Crossed(qs, q, r) ==
    /\ q # r
    /\ qs[q].status = "active"
    /\ qs[r].status = "active"
    /\ qs[q].userId # qs[r].userId
    /\ (qs[q].bidPrice >= qs[r].offerPrice \/ qs[r].bidPrice >= qs[q].offerPrice)

\* C20: a submission that passes its checks and leaves the book crossed
\* against another owner's quote was checked against a local copy that did
\* not hold that quote as the store does; and such submissions exist (the
\* witness).
SubmissionRace ==
    [][\A u \in Users, q, r \in QuoteIds :
          AcceptedBy(u, q) /\ Crossed(quotes', q, r) =>
              marketPrices[u][r] # quotes[r]]_vars

\* C20 witness: after two submissions and no fill, the book holds two active
\* quotes of different owners that are crossed.
SubmissionRaceWitness ==
    /\ submits = 2
    /\ fills = 0
    /\ \E q, r \in QuoteIds : Crossed(quotes, q, r)

RECURSIVE SumOver(_, _, _)
\* Sum of amount (what = "amount") or price x amount (what = "value") over
\* the trades at the indices S.
SumOver(S, ledger, what) ==
    IF S = {} THEN 0
    ELSE LET i == CHOOSE j \in S : TRUE
             term == IF what = "amount" THEN ledger[i].amount
                     ELSE ledger[i].price * ledger[i].amount
         IN  term + SumOver(S \ {i}, ledger, what)

Buys(u) == {i \in 1 .. Len(trades) : trades[i].buyerId = u}

Sells(u) == {i \in 1 .. Len(trades) : trades[i].sellerId = u}

\* C21: the netPosition rendered for a user is the sum of the amounts of the
\* trades the user bought minus the sum of those the user sold.
NetPosition ==
    \A u \in Users :
        summary[u].netPosition
            = SumOver(Buys(u), trades, "amount") - SumOver(Sells(u), trades, "amount")

\* C21 witness: a user has bought, has sold, and is not party to a third
\* trade.
NetPositionWitness ==
    \E u \in Users :
        /\ Buys(u) # {}
        /\ Sells(u) # {}
        /\ Buys(u) \cap Sells(u) = {}
        /\ Buys(u) \cup Sells(u) # 1 .. Len(trades)
        /\ summary[u].netPosition # 0

\* C22: the realizedPnL rendered for a user is (avgSellPrice - avgBuyPrice) x
\* min(totalBuyQty, totalSellQty) with the averages not rounded, and 0 when
\* the user has no buys or no sells.  (Both sides are multiplied by
\* 100 x totalBuyQty x totalSellQty.)
RealizedPnL ==
    \A u \in Users :
        LET bq == SumOver(Buys(u), trades, "amount")
            sq == SumOver(Sells(u), trades, "amount")
            bv == SumOver(Buys(u), trades, "value")
            sv == SumOver(Sells(u), trades, "value")
            minQ == IF bq <= sq THEN bq ELSE sq
        IN  IF bq = 0 \/ sq = 0
            THEN summary[u].realizedPnL = 0
            ELSE summary[u].realizedPnL * bq * sq = 100 * (sv * bq - bv * sq) * minQ

RECURSIVE SumUsers(_, _)
\* Sum over the users S of a figure of the summary.
SumUsers(S, figure) ==
    IF S = {} THEN 0
    ELSE LET u == CHOOSE v \in S : TRUE
         IN  summary[u][figure] + SumUsers(S \ {u}, figure)

\* C29: the rendered net positions of all users add up to 0, and the
\* quantities bought add up to the quantities sold.
ZeroSumPositions ==
    /\ SumUsers(Users, "netPosition") = 0
    /\ SumUsers(Users, "totalBuyQuantity") = SumUsers(Users, "totalSellQuantity")

\* C29 witness: three users hold a position, none of them 0.
ZeroSumPositionsWitness ==
    \A u \in Users : summary[u].netPosition # 0

\* The step in which u's executeTrade starts: the page's pre-write.
StartedBy(u) == op[u].pc # "txn" /\ op'[u].pc = "txn"

\* The fields of a quote that a fill on `side` is to leave alone.
FillFrame(d, side) ==
    <<d.userId, d.bidPrice, d.offerPrice,
      IF side = "hit" THEN d.offerAmount ELSE d.bidAmount>>

\* C23: the writes of a fill (the page's write and the transaction's) leave
\* the other side's amount, both prices and the owner of the quote as they
\* are in the store.
FillFrameEffect ==
    [][\A u \in Users :
          /\ StartedBy(u) =>
                FillFrame(quotes'[op'[u].id], op'[u].side)
                    = FillFrame(quotes[op'[u].id], op'[u].side)
          /\ CommitBy(u) =>
                FillFrame(quotes'[op[u].id], op[u].side)
                    = FillFrame(quotes[op[u].id], op[u].side)]_vars

\* C24: every quote with status executed carries an executedTradeId that
\* names a trade of the ledger made against that quote.
ClosingTradeBackReference ==
    \A q \in QuoteIds :
        quotes[q].status = "executed" =>
            /\ quotes[q].executedTradeId \in 1 .. Len(trades)
            /\ trades[quotes[q].executedTradeId].marketPriceId = q

\* C25: a step of a user who does not own the quote (the two writes of a
\* fill) leaves the quote's prices and owner alone, never makes it canceled,
\* never raises an amount, and changes the status only from active to
\* executed.
OwnerOnlyEdits ==
    [][\A u \in Users, q \in QuoteIds :
          /\ quotes[q].userId # u
          /\ quotes[q].status # "none"
          /\ (StartedBy(u) /\ op'[u].id = q) \/ (CommitBy(u) /\ op[u].id = q)
          => /\ quotes'[q].userId = quotes[q].userId
             /\ quotes'[q].bidPrice = quotes[q].bidPrice
             /\ quotes'[q].offerPrice = quotes[q].offerPrice
             /\ quotes'[q].bidAmount <= quotes[q].bidAmount
             /\ quotes'[q].offerAmount <= quotes[q].offerAmount
             /\ quotes'[q].status # quotes[q].status =>
                   quotes[q].status = "active" /\ quotes'[q].status = "executed"]_vars

\* C28: no trade of the ledger has the same user as buyer and as seller.
NoSelfTrade ==
    \A i \in 1 .. Len(trades) : trades[i].buyerId # trades[i].sellerId

\* C30: when every submission is checked against the stored book and written
\* in the same step, no two active quotes of different owners are crossed:
\* the bid of each is below the offer of the other, so the best bid shown is
\* below the best offer shown.
UncrossedBook ==
    \A q, r \in QuoteIds : ~Crossed(quotes, q, r)

\* C26: every executeTrade that has started ends, with a committed trade or
\* with the error shown to its caller.
EveryFillResolves ==
    \A u \in Users : (op[u].pc = "txn") ~> (op[u].pc \in {"idle", "StaleQuote"})

\* C26 witness: a fill is pending on a quote that another client's fill has
\* executed and the owner has canceled since.
EveryFillResolvesWitness ==
    \E u \in Users :
        /\ op[u].pc = "txn"
        /\ quotes[op[u].id].status = "canceled"
        /\ quotes[op[u].id].executedTradeId # 0

\* C27: a quote enters a client's view only with a delivered snapshot in
\* which it is active, and in the end every client's view is, and stays, the
\* set of stored active quotes with their stored fields.
LiveBookView ==
    /\ [][\A u \in Users, q \in QuoteIds :
            marketPrices[u][q].status = "none" /\ marketPrices'[u][q].status # "none" =>
                /\ marketPrices'[u] = ActiveDocs(quotes)
                /\ quotes[q].status = "active"]_vars
    /\ <>[](\A u \in Users : marketPrices[u] = ActiveDocs(quotes))

\* C27 witness: a client's view holds a quote it has itself marked executed
\* (its optimistic edit), while the store holds the quote as active.
LiveBookViewWitness ==
    \E u \in Users, q \in QuoteIds :
        /\ marketPrices[u][q].status = "executed"
        /\ quotes[q].status = "active"

====
